---- MODULE Spec2Model ----
(***************************************************************************)
(* Edit-history engine of the matome creative editor (App component).      *)
(*                                                                         *)
(* The React state cells `history` and `historyIndex` form the             *)
(* HistoryStack.  Every handler is a synchronous run of setState calls;    *)
(* React applies all calls of one run in a single commit, so a step of     *)
(* the model is one run of a handler followed by that commit.  A handler   *)
(* that awaits (the AI edit, filter, adjustment and upscale handlers) is   *)
(* two runs: the part before the await and the continuation, which keeps   *)
(* the values of the render in which the handler was invoked.              *)
(*                                                                         *)
(* State cells that never influence the stack (prompt, hotspots, crop      *)
(* rectangle, active tab, start mode, view, toast) are not modelled.       *)
(*                                                                         *)
(* The effects of App hang off the same commits.  They do not feed back    *)
(* into the stack, so each is studied in a specification of its own, in    *)
(* which the variables of the other effects stay as Init left them:        *)
(*   Spec      the stack and its handlers;                                 *)
(*   SpecUrls  the two object-URL effects (current and original image);    *)
(*   SpecCodec the conversions between a stack of Files and localStorage;  *)
(*   SpecSave  the save effect and its asynchronous writes.                *)
(* The gallery (services/db.ts over IndexedDB) and the generation panels  *)
(* of the start screen have three more:                                   *)
(*   SpecDb      the gallery store alone, across page reloads;            *)
(*   SpecGallery the stack, its save effect, the gallery and the image    *)
(*               generation panel together;                               *)
(*   SpecVideo   the video panel and the object URLs of its videos, with  *)
(*               weak fairness of the calls a run waits for.              *)
(***************************************************************************)
EXTENDS Integers, Sequences, FiniteSets, TLC

\* ---------------------------------------------------------------- bounds
\* File objects created during one behaviour (uploads, results, restores).
MaxFiles == 4
\* Length of the history found in localStorage at start-up.
MaxStored == 2
MaxBytes == 1
MaxWrites == 1
MaxFailures == 1
MaxSaveFiles == 2
\* Ids the key generator of the gallery store hands out.
MaxItems == 3
\* Distinct Files offered to the gallery store on its own.
MaxMedia == 2
\* Milliseconds the clock advances.
MaxClock == 1
\* Page reloads.
MaxReloads == 1
\* Gallery entries stored next to the editor.
MaxEntries == 1
\* Times the video panel is mounted.
MaxPanels == 2
\* Videos generated.
MaxVideos == 2

\* ------------------------------------------------------------- constants
\* `history[i] ?? null`: the absent File.
NoFile == 0
\* `useState<string | null>(null)`: no error reported.
NoError == "null"

VARIABLES
    history,        \* useState<File[]>: sequence of File identities
    historyIndex,   \* useState<number>: 0-based index, -1 when empty
    isLoading,      \* useState<boolean>
    error,          \* useState<string | null>
    pending,        \* the AI handler suspended at its await, with the
                    \* history and historyIndex its closure captured
    nextFile,       \* identity of the next File object to be created
    txn,            \* the last handler run: its name, the File it was given,
                    \* and the stack as it stood when the run began
    clearedClean,   \* handleUploadNew ran and no replace or append was
                    \* requested since
    mounted,        \* App is mounted
    effectDep,      \* per role, the image its URL effect last ran with
    liveUrls,       \* per role, the object URLs created and not revoked,
                    \* each named by the File it was created for
    currentImageUrl,    \* useState<string | null>
    originalImageUrl,   \* useState<string | null>
    urlQueue,       \* setCurrentImageUrl / setOriginalImageUrl calls made
                    \* by the effects and not yet rendered
    ls,             \* localStorage: the values of the two keys
    untypedMime,    \* the media type this browser's FileReader gives a
                    \* File with an empty type
    session,        \* a stack of Files to save or just restored
    writes,         \* the runs of saveState that wait for their FileReaders,
                    \* each with the stack of the render that started it
    saveFailures,   \* the number of runs of saveState that have thrown
    disk,           \* the IndexedDB database 'matome-creative-gallery' as
                    \* it is on disk: version, object stores, the entries
                    \* of 'saved-items' in key order, its key generator
    dbPromise,      \* db.ts: this page has opened the database
    clock,          \* what new Date() returns, in milliseconds
    galleryItems,   \* Gallery: useState<SavedItem[]>
    dbLog,          \* the last call into db.ts: its name, the id it was
                    \* given or returned, the database before it, and
                    \* every id handed out so far
    gen,            \* ImageGenerationPanel.handleGenerate: where it is
                    \* suspended, its File, and how often it has called
                    \* onImageGenerated
    saving,         \* handleSaveToGallery suspended at its await, with
                    \* the File it was started for
    video,          \* VideoGenerationPanel: mounted, isGenerating,
                    \* generatedVideoUrl, and the runs of
                    \* handleGenerateVideo that wait for generateVideo
    videoUrls       \* the object URLs generateVideo created: all of
                    \* them, and those revoked since

coreVars == <<history, historyIndex, isLoading, error, pending, nextFile,
              txn, clearedClean>>
urlVars == <<mounted, effectDep, liveUrls, currentImageUrl,
             originalImageUrl, urlQueue>>
codecVars == <<ls, untypedMime, session>>
saveVars == <<writes, saveFailures>>
galleryVars == <<disk, dbPromise, clock, galleryItems, dbLog>>
panelVars == <<gen, saving, video, videoUrls>>
vars == <<coreVars, urlVars, codecVars, saveVars, galleryVars, panelVars>>

\* ------------------------------------------------ Files and data URLs
SeqsUpTo(S, n) == UNION {[1..k -> S] : k \in 0..n}

\* A File by what the stack stores of it: name, type and bytes.
Bytes == {1, 255}
FileNames == {"a.png", "b"}
FileTypes == {"", "image/png"}
Files == [name : FileNames, type : FileTypes, data : SeqsUpTo(Bytes, MaxBytes)]

\* Characters of a base64 text: the sextets 0..63, '=' and a character
\* outside the alphabet.
Pad == 64
Bad == 65

\* The base64 text FileReader.readAsDataURL produces for the bytes.
RECURSIVE btoa(_)
btoa(bs) ==
    IF bs = <<>> THEN <<>>
    ELSE IF Len(bs) = 1
    THEN <<bs[1] \div 4, (bs[1] % 4) * 16, Pad, Pad>>
    ELSE IF Len(bs) = 2
    THEN <<bs[1] \div 4, (bs[1] % 4) * 16 + (bs[2] \div 16),
           (bs[2] % 16) * 4, Pad>>
    ELSE <<bs[1] \div 4, (bs[1] % 4) * 16 + (bs[2] \div 16),
           (bs[2] % 16) * 4 + (bs[3] \div 64), bs[3] % 64>>
         \o btoa(SubSeq(bs, 4, Len(bs)))

\* The bytes of a text of sextets; left-over bits are dropped.
RECURSIVE sextetsToBytes(_)
sextetsToBytes(cs) ==
    IF Len(cs) < 2 THEN <<>>
    ELSE IF Len(cs) = 2
    THEN <<cs[1] * 4 + (cs[2] \div 16)>>
    ELSE IF Len(cs) = 3
    THEN <<cs[1] * 4 + (cs[2] \div 16),
           (cs[2] % 16) * 16 + (cs[3] \div 4)>>
    ELSE <<cs[1] * 4 + (cs[2] \div 16),
           (cs[2] % 16) * 16 + (cs[3] \div 4),
           (cs[3] % 4) * 64 + cs[4]>>
         \o sextetsToBytes(SubSeq(cs, 5, Len(cs)))

\* atob: one or two trailing '=' of a text whose length is a multiple of 4
\* are dropped; a remaining length of 1 mod 4 or a character that is not a
\* sextet throws; otherwise the binary string, one character per byte.
atob(cs) ==
    LET n == Len(cs)
        pads == IF n % 4 = 0 /\ n > 0 /\ cs[n] = Pad
                THEN (IF cs[n - 1] = Pad THEN 2 ELSE 1)
                ELSE 0
        body == SubSeq(cs, 1, n - pads)
    IN  IF Len(body) % 4 = 1 \/ \E k \in DOMAIN body : body[k] > 63
        THEN [ok |-> FALSE, bstr |-> <<>>]
        ELSE [ok |-> TRUE, bstr |-> sextetsToBytes(body)]

\* A data URL string, by the parts dataURLtoFile looks at: whether it has a
\* comma, the text between the first ':' and the comma split at ';'
\* (<<>> when there is no ':'), and the text after the comma.
DataUrl(head, payload) == [comma |-> TRUE, head |-> head, payload |-> payload]

\* The media type browsers put into the data URL of a File whose type is
\* empty: "application/octet-stream", or none.
UntypedMimes == {"application/octet-stream", ""}

\* fileToDataURL: FileReader.readAsDataURL(file).
fileToDataURL(file) ==
    DataUrl(<<IF file.type = "" THEN untypedMime ELSE file.type, "base64">>,
            btoa(file.data))

\* What a throwing dataURLtoFile leaves in place of its result.
Thrown == [ok |-> FALSE, file |-> [name |-> "", type |-> "", data |-> <<>>]]

\* arr[0].match(/:(.*?);/): <<group 1>>, or <<>> when there is no match.
mimeMatch(head) == IF Len(head) >= 2 THEN <<head[1]>> ELSE <<>>

\* dataURLtoFile: ok with the File, or not ok when the call throws.
dataURLtoFile(dataurl, filename) ==
    IF ~dataurl.comma THEN Thrown                     \* arr.length < 2
    ELSE IF mimeMatch(dataurl.head) = <<>> THEN Thrown
    ELSE IF mimeMatch(dataurl.head)[1] = "" THEN Thrown
    ELSE LET bstr == atob(dataurl.payload)
         IN  IF ~bstr.ok THEN Thrown
             ELSE [ok |-> TRUE,
                   file |-> [name |-> filename,
                             type |-> mimeMatch(dataurl.head)[1],
                             data |-> bstr.bstr]]

\* ------------------------------------------------------- stored history
\* Shapes of a stored dataUrl that dataURLtoFile tells apart: two that
\* decode, then one without comma, one without ';', one with an empty media
\* type and one whose payload is not base64.
DataUrlForms ==
    {DataUrl(<<"image/png", "base64">>, btoa(<<255>>)),
     DataUrl(<<"text/plain", "charset=utf-8", "base64">>, btoa(<<1, 255>>)),
     [comma |-> FALSE, head |-> <<"image/png", "base64">>, payload |-> <<>>],
     DataUrl(<<"image/png">>, btoa(<<255>>)),
     DataUrl(<<"", "base64">>, btoa(<<255>>)),
     DataUrl(<<"image/png", "base64">>, <<63, Bad, 0, 0>>)}

\* A value localStorage.getItem can return is null (not present), ""
\* (empty) or a longer string.
\* Values of 'matome_creative_history': for a non-empty string, whether
\* JSON.parse yields an array of items, and the items.
NoHistoryKey == [present |-> FALSE, empty |-> FALSE, parsable |-> FALSE,
                 items |-> <<>>]
StoredHistories ==
    {NoHistoryKey,
     [present |-> TRUE, empty |-> TRUE, parsable |-> FALSE, items |-> <<>>],
     [present |-> TRUE, empty |-> FALSE, parsable |-> FALSE, items |-> <<>>]}
    \cup {[present |-> TRUE, empty |-> FALSE, parsable |-> TRUE, items |-> s] :
            s \in SeqsUpTo([dataUrl : DataUrlForms, name : {"a.png"}],
                           MaxStored)}

\* Values of 'matome_creative_historyIndex': for a non-empty string, what
\* parseInt(s, 10) reads from it (a leading integer, junk after it
\* ignored), or NaN.
NoIndexKey == [present |-> FALSE, empty |-> FALSE, isNaN |-> TRUE,
               num |-> 0, junk |-> FALSE]
StoredIndexes ==
    {NoIndexKey,
     [present |-> TRUE, empty |-> TRUE, isNaN |-> TRUE, num |-> 0,
      junk |-> FALSE],
     [present |-> TRUE, empty |-> FALSE, isNaN |-> TRUE, num |-> 0,
      junk |-> TRUE]}
    \cup {[present |-> TRUE, empty |-> FALSE, isNaN |-> FALSE, num |-> n,
           junk |-> j] : n \in -1..(MaxStored + 1), j \in BOOLEAN}

\* !s for a value of localStorage.getItem
falsy(s) == ~s.present \/ s.empty

\* savedHistory.map(item => dataURLtoFile(item.dataUrl, item.name))
decoded(items) ==
    [k \in DOMAIN items |-> dataURLtoFile(items[k].dataUrl, items[k].name)]

\* loadInitialState: the initial stack, and whether the catch block ran
\* (which removes both keys).
loadInitialState_keepGarbage(savedHistoryJSON, savedIndexStr) ==
    LET empty == [history |-> <<>>, historyIndex |-> -1, caught |-> FALSE]
    IN
    IF falsy(savedHistoryJSON) \/ falsy(savedIndexStr) THEN empty
    ELSE IF ~savedHistoryJSON.parsable THEN empty
    ELSE IF \E k \in DOMAIN savedHistoryJSON.items :
                ~decoded(savedHistoryJSON.items)[k].ok
    THEN empty
    ELSE
        LET restored == [k \in DOMAIN savedHistoryJSON.items |->
                           decoded(savedHistoryJSON.items)[k].file]
            n == Len(restored)
            parsed == savedIndexStr.num
        IN  IF savedIndexStr.isNaN \/ parsed < 0 \/ parsed >= n
            THEN [history |-> restored,
                  historyIndex |-> IF n > 0 THEN n - 1 ELSE -1,
                  caught |-> FALSE]
            ELSE [history |-> restored, historyIndex |-> parsed,
                  caught |-> FALSE]
loadInitialState(savedHistoryJSON, savedIndexStr) ==
    LET empty == [history |-> <<>>, historyIndex |-> -1, caught |-> FALSE]
        thrown == [history |-> <<>>, historyIndex |-> -1, caught |-> TRUE]
    IN
    IF falsy(savedHistoryJSON) \/ falsy(savedIndexStr) THEN empty
    ELSE IF ~savedHistoryJSON.parsable THEN thrown
    ELSE IF \E k \in DOMAIN savedHistoryJSON.items :
                ~decoded(savedHistoryJSON.items)[k].ok
    THEN thrown
    ELSE
        LET restored == [k \in DOMAIN savedHistoryJSON.items |->
                           decoded(savedHistoryJSON.items)[k].file]
            n == Len(restored)
            parsed == savedIndexStr.num
        IN  IF savedIndexStr.isNaN \/ parsed < 0 \/ parsed >= n
            THEN [history |-> restored,
                  historyIndex |-> IF n > 0 THEN n - 1 ELSE -1,
                  caught |-> FALSE]
            ELSE [history |-> restored, historyIndex |-> parsed,
                  caught |-> FALSE]

\* localStorage after loadInitialState.
afterLoad(storage, initialState) ==
    IF initialState.caught
    THEN [history |-> NoHistoryKey, historyIndex |-> NoIndexKey]
    ELSE storage

\* The save effect's saveState on a stack of Files, run to its end: what
\* the two setItem calls (or the two removeItem calls) leave in localStorage.
saveState(h, i) ==
    IF Len(h) > 0 /\ i >= 0
    THEN [history |->
            [present |-> TRUE, empty |-> FALSE, parsable |-> TRUE,
             items |-> [k \in DOMAIN h |->
                          [dataUrl |-> fileToDataURL(h[k]),
                           name |-> h[k].name]]],
          historyIndex |->
            [present |-> TRUE, empty |-> FALSE, isNaN |-> FALSE,
             num |-> i, junk |-> FALSE]]
    ELSE [history |-> NoHistoryKey, historyIndex |-> NoIndexKey]

\* ------------------------------------------------------- derived values
\* Array.prototype.slice(begin, end) for 0 <= begin.
slice(arr, begin, end) ==
    LET e == IF end < 0 THEN Len(arr) + end
             ELSE IF end > Len(arr) THEN Len(arr) ELSE end
    IN  IF e <= begin THEN <<>> ELSE SubSeq(arr, begin + 1, e)

\* arr[i] ?? null
at(arr, i) == IF i >= 0 /\ i < Len(arr) THEN arr[i + 1] ELSE NoFile

currentImage == at(history, historyIndex)
originalImage == at(history, 0)

canUndo == historyIndex > 0

canRedo_offByOne == historyIndex < Len(history)
canRedo == historyIndex < Len(history) - 1

\* ------------------------------------------------------ setState calls
setHistory(v) == [cell |-> "history", val |-> v]
setHistoryIndex(v) == [cell |-> "historyIndex", val |-> v]
setIsLoading(v) == [cell |-> "isLoading", val |-> v]
setError(v) == [cell |-> "error", val |-> v]

State == [history |-> history, historyIndex |-> historyIndex,
          isLoading |-> isLoading, error |-> error]

\* The commit of one run: the calls applied in the order they were made.
RECURSIVE ApplyUpdates(_, _)
ApplyUpdates(st, ups) ==
    IF ups = <<>> THEN st
    ELSE ApplyUpdates([st EXCEPT ![Head(ups).cell] = Head(ups).val],
                      Tail(ups))

\* ------------------------------------------------------------- handlers
\* Each handler is the sequence of setState calls of one run.  The closure
\* values of addImageToHistory are explicit parameters.

addImageToHistory(h, i, newImageFile) ==
    LET newHistory == Append(slice(h, 0, i + 1), newImageFile)
    IN  <<setHistory(newHistory), setHistoryIndex(Len(newHistory) - 1)>>

handleImageUpload_append(file) ==
    <<setError(NoError)>> \o addImageToHistory(history, historyIndex, file)
handleImageUpload(file) ==
    <<setError(NoError), setHistory(<<file>>), setHistoryIndex(0)>>

handleNavigateToEditor(imageFile) ==
    IF imageFile # NoFile
    THEN <<setError(NoError), setHistory(<<imageFile>>), setHistoryIndex(0)>>
    ELSE <<>>

handleUndo_noFloor ==
    IF historyIndex >= 0 THEN <<setHistoryIndex(historyIndex - 1)>> ELSE <<>>
handleUndo ==
    IF canUndo THEN <<setHistoryIndex(historyIndex - 1)>> ELSE <<>>

handleRedo_pastEnd ==
    IF historyIndex < Len(history)
    THEN <<setHistoryIndex(historyIndex + 1)>> ELSE <<>>
handleRedo ==
    IF canRedo THEN <<setHistoryIndex(historyIndex + 1)>> ELSE <<>>

handleReset_noGuard ==
    <<setHistoryIndex(0), setError(NoError)>>
handleReset_truncate ==
    IF Len(history) > 0
    THEN <<setHistory(slice(history, 0, 1)), setHistoryIndex(0),
           setError(NoError)>>
    ELSE <<>>
handleReset ==
    IF Len(history) > 0
    THEN <<setHistoryIndex(0), setError(NoError)>>
    ELSE <<>>

handleUploadNew_keepIndex ==
    <<setHistory(<<>>), setError(NoError)>>
handleUploadNew ==
    <<setHistory(<<>>), setHistoryIndex(-1), setError(NoError)>>

\* handleApplyCrop: `selected` is completedCrop && imgRef.current,
\* `ctx` is canvas.getContext('2d') returning a context.
handleApplyCrop(selected, ctx, newImageFile) ==
    IF ~selected THEN <<setError("crop: no selection")>>
    ELSE IF ~ctx THEN <<setError("crop: no context")>>
    ELSE addImageToHistory(history, historyIndex, newImageFile)

\* The run of an AI handler up to its await.  handleGenerate also needs a
\* prompt and a hotspot; the other three only a current image.
beforeAwait_noImageCheck(kind, promptGiven, hotspotGiven) ==
    IF kind = "edit" /\ ~promptGiven THEN <<setError("edit: no prompt")>>
    ELSE IF kind = "edit" /\ ~hotspotGiven
    THEN <<setError("edit: no hotspot")>>
    ELSE <<setIsLoading(TRUE), setError(NoError)>>
beforeAwait(kind, promptGiven, hotspotGiven) ==
    IF currentImage = NoFile THEN <<setError(kind \o ": no image")>>
    ELSE IF kind = "edit" /\ ~promptGiven THEN <<setError("edit: no prompt")>>
    ELSE IF kind = "edit" /\ ~hotspotGiven
    THEN <<setError("edit: no hotspot")>>
    ELSE <<setIsLoading(TRUE), setError(NoError)>>

\* The continuation after the await: try body, catch, finally.
afterAwait_rollback(kind, h, i, resolved, newImageFile) ==
    IF resolved
    THEN addImageToHistory(h, i, newImageFile) \o <<setIsLoading(FALSE)>>
    ELSE <<setHistory(h), setHistoryIndex(i), setError(kind \o ": failed"),
           setIsLoading(FALSE)>>
afterAwait(kind, h, i, resolved, newImageFile) ==
    IF resolved
    THEN addImageToHistory(h, i, newImageFile) \o <<setIsLoading(FALSE)>>
    ELSE <<setError(kind \o ": failed"), setIsLoading(FALSE)>>


\* ---------------------------------------------------- object-URL effects
\* useEffect(() => { if (image) { url = createObjectURL(image); setUrl(url);
\* return () => revokeObjectURL(url) } else setUrl(null) }, [image]), once
\* for currentImage and once for originalImage.
Roles == {"current", "original"}

\* effectDep of an effect that has not run yet.
NeverRan == -1

imageOf(role) == IF role = "current" THEN currentImage ELSE originalImage

\* URL.revokeObjectURL(url): the URL leaves the live ones.
RECURSIVE revokeObjectURL(_, _)
revokeObjectURL(live, url) ==
    IF live = <<>> THEN <<>>
    ELSE IF Head(live) = url THEN Tail(live)
    ELSE <<Head(live)>> \o revokeObjectURL(Tail(live), url)

\* URL.createObjectURL(image)
createObjectURL(live, image) == Append(live, image)

\* The dependency of the role's effect changed since it last ran.
effectDue_onlyFirst(role) ==
    effectDep[role] \in {NeverRan, NoFile} /\ imageOf(role) # NoFile
effectDue(role) == effectDep[role] # imageOf(role)

\* The cleanup the last run of the effect returned.
urlCleanup_none(live, dep) == live
urlCleanup(live, dep) ==
    IF dep # NeverRan /\ dep # NoFile THEN revokeObjectURL(live, dep)
    ELSE live

\* The body of the effect: the live URLs after it and the URL it sets.
urlEffect(live, image) ==
    IF image # NoFile THEN createObjectURL(live, image) ELSE live

EffectsDue == \E role \in Roles : effectDue(role)

\* The effects have run and their setState calls are rendered.
Settled == mounted /\ ~EffectsDue /\ urlQueue = <<>>

UrlInit ==
    /\ mounted = TRUE
    /\ effectDep = [role \in Roles |-> NeverRan]
    /\ liveUrls = [role \in Roles |-> <<>>]
    /\ currentImageUrl = NoFile
    /\ originalImageUrl = NoFile
    /\ urlQueue = <<>>

\* React runs the passive effects of a commit: the cleanups of the effects
\* whose dependency changed, then their bodies, current before original.
FlushEffects ==
    /\ mounted
    /\ EffectsDue
    /\ LET due == {role \in Roles : effectDue(role)}
           cleaned == [role \in Roles |->
                         IF role \in due
                         THEN urlCleanup(liveUrls[role], effectDep[role])
                         ELSE liveUrls[role]]
           sets(role) == IF role \in due
                         THEN <<[cell |-> role, val |-> imageOf(role)]>>
                         ELSE <<>>
       IN  /\ liveUrls' = [role \in Roles |->
                             IF role \in due
                             THEN urlEffect(cleaned[role], imageOf(role))
                             ELSE cleaned[role]]
           /\ effectDep' = [role \in Roles |-> imageOf(role)]
           /\ urlQueue' = urlQueue \o sets("current") \o sets("original")
    /\ UNCHANGED <<mounted, currentImageUrl, originalImageUrl>>
    /\ UNCHANGED <<coreVars, codecVars, saveVars, galleryVars, panelVars>>

\* The render of the setState calls the effects made.
Rerender ==
    /\ mounted
    /\ urlQueue # <<>>
    /\ LET cells == ApplyUpdates([current |-> currentImageUrl,
                                  original |-> originalImageUrl], urlQueue)
       IN  /\ currentImageUrl' = cells.current
           /\ originalImageUrl' = cells.original
    /\ urlQueue' = <<>>
    /\ UNCHANGED <<mounted, effectDep, liveUrls>>
    /\ UNCHANGED <<coreVars, codecVars, saveVars, galleryVars, panelVars>>

\* App unmounts: React runs the cleanup of every effect.
Unmount ==
    /\ mounted
    /\ ~EffectsDue
    /\ mounted' = FALSE
    /\ liveUrls' = [role \in Roles |->
                      urlCleanup(liveUrls[role], effectDep[role])]
    /\ UNCHANGED <<effectDep, currentImageUrl, originalImageUrl, urlQueue>>
    /\ UNCHANGED <<coreVars, codecVars, saveVars, galleryVars, panelVars>>


\* ------------------------------------------------- save and restore
\* The variables of save and restore while they are not studied.
NoSession == [phase |-> "off", history |-> <<>>, historyIndex |-> -1,
              found |-> [history |-> NoHistoryKey,
                         historyIndex |-> NoIndexKey],
              saved |-> [history |-> <<>>, historyIndex |-> -1]]

CodecOff ==
    /\ ls = [history |-> NoHistoryKey, historyIndex |-> NoIndexKey]
    /\ untypedMime = "application/octet-stream"
    /\ session = NoSession

\* ---------------------------------------------------------------- steps
\* The stack commands (undo, redo, reset, new upload, replace) may run in
\* any state: their buttons are not tied to isLoading, and the handlers
\* carry their own guards, so a run on a stack that does not allow the
\* move is a no-op.  The crop and AI controls are disabled while isLoading
\* (their `disabled` attributes), which the steps below take as guards.
NoPending == [kind |-> "none", history |-> <<>>, historyIndex |-> -1,
              touched |-> FALSE]

Stack == [history |-> history, historyIndex |-> historyIndex]

\* One handler run and the commit of its setState calls.
Run(op, file, ups) ==
    LET new == ApplyUpdates(State, ups)
    IN  /\ history' = new.history
        /\ historyIndex' = new.historyIndex
        /\ isLoading' = new.isLoading
        /\ error' = new.error
        /\ txn' = [op |-> op, file |-> file, pre |-> Stack,
                   touched |-> pending.touched,
                   errors |-> Cardinality({k \in DOMAIN ups :
                                  /\ ups[k].cell = "error"
                                  /\ ups[k].val # NoError}),
                   setsHistory |-> \E k \in DOMAIN ups :
                                     ups[k].cell = "history"]

\* A stack command issued while an AI handler is suspended.
Touch ==
    pending' = IF pending.kind # "none"
               THEN [pending EXCEPT !.touched = TRUE] ELSE pending

\* ---------------------------------------------------------- save effect
\* useEffect(() => { saveState() }, [history, historyIndex]).
\* The File behind an entry of the stack.
fileOf(id) == [name |-> "a.png", type |-> "image/png", data |-> <<id>>]

filesOf(h) == [k \in DOMAIN h |-> fileOf(h[k])]

\* The variables of the save effect while it is not studied.
SaveOff ==
    /\ writes = {}
    /\ saveFailures = 0

\* The branch of saveState that awaits: history.length > 0 &&
\* historyIndex >= 0.
awaits(st) == Len(st.history) > 0 /\ st.historyIndex >= 0

\* The effect runs after a commit in which setHistory was called (a new
\* array) or historyIndex changed.
saveDue == txn'.setsHistory \/ historyIndex' # historyIndex

\* What the catch block of saveState does to the state cells:
\* console.error, and nothing else.
saveCatch_report == <<setError("save failed")>>
saveCatch == <<>>

\* The effect of the commit the handler step made: saveState starts and
\* either waits for its FileReaders or removes both keys at once.
SaveEffect ==
    LET st == [history |-> history', historyIndex |-> historyIndex']
    IN  /\ writes' = IF saveDue /\ awaits(st) THEN writes \cup {st}
                      ELSE writes
        /\ ls' = IF saveDue /\ ~awaits(st) THEN saveState(<<>>, -1) ELSE ls
        /\ UNCHANGED saveFailures

\* The FileReaders of one run of saveState are done and both setItem calls
\* go through.
WriteCompletes ==
    /\ \E w \in writes :
          /\ ls' = saveState(filesOf(w.history), w.historyIndex)
          /\ writes' = writes \ {w}
    /\ UNCHANGED saveFailures
    /\ UNCHANGED <<coreVars, urlVars, untypedMime, session, galleryVars, panelVars>>

\* One run of saveState throws: a FileReader fails, or a setItem call
\* does (the second after the first went through, too).
WriteFails ==
    /\ saveFailures < MaxFailures
    /\ \E w \in writes, stage \in {"read", "history", "index"} :
          /\ ls' = IF stage = "index"
                   THEN [ls EXCEPT !.history =
                           saveState(filesOf(w.history),
                                     w.historyIndex).history]
                   ELSE ls
          /\ writes' = writes \ {w}
    /\ saveFailures' = saveFailures + 1
    /\ LET new == ApplyUpdates(State, saveCatch)
       IN  /\ history' = new.history
           /\ historyIndex' = new.historyIndex
           /\ isLoading' = new.isLoading
           /\ error' = new.error
    /\ UNCHANGED <<pending, nextFile, txn, clearedClean>>
    /\ UNCHANGED <<urlVars, untypedMime, session, galleryVars, panelVars>>


\* ------------------------------------------------------ gallery store
\* services/db.ts over IndexedDB.  A database is its version, its object
\* stores, and for 'saved-items' the entries in key order and the key
\* generator of the store.
STORE_NAME == "saved-items"
DB_VERSION == 2

\* db.createObjectStore(STORE_NAME, {keyPath: 'id', autoIncrement: true})
\* followed by store.createIndex('createdAt', 'createdAt').
savedItemsStore == [name |-> STORE_NAME, keyPath |-> "id",
                    autoIncrement |-> TRUE, indexes |-> {"createdAt"}]

\* The store version 1 of the application kept its images in.
savedImagesStore == [name |-> "saved-images", keyPath |-> "id",
                     autoIncrement |-> TRUE, indexes |-> {}]

\* No database of this name exists: openDB reports oldVersion 0.
NoDatabase == [version |-> 0, stores |-> {}, items |-> <<>>, keyGen |-> 1]

objectStoreNames(db) == {st.name : st \in db.stores}

deleteObjectStore(db, name) ==
    [db EXCEPT !.stores = {st \in @ : st.name # name}]

\* The upgrade callback of openDB.
upgrade_keepLegacy(db, oldVersion) ==
    IF oldVersion < 2 /\ STORE_NAME \notin objectStoreNames(db)
    THEN [db EXCEPT !.stores = @ \cup {savedItemsStore},
                    !.items = <<>>, !.keyGen = 1]
    ELSE db
upgrade(db, oldVersion) ==
    IF oldVersion < 2
    THEN LET cleaned == IF "saved-images" \in objectStoreNames(db)
                        THEN deleteObjectStore(db, "saved-images")
                        ELSE db
         IN  IF STORE_NAME \notin objectStoreNames(cleaned)
             THEN [cleaned EXCEPT !.stores = @ \cup {savedItemsStore},
                                  !.items = <<>>, !.keyGen = 1]
             ELSE cleaned
    ELSE db

\* openDB(DB_NAME, DB_VERSION, {upgrade}): a database older than
\* DB_VERSION is upgraded in a versionchange transaction.
openDB(db) ==
    IF db.version < DB_VERSION
    THEN [upgrade(db, db.version) EXCEPT !.version = DB_VERSION]
    ELSE db

\* initDB(): the page opens the database once and keeps the promise.
initDB(db, opened) == IF opened THEN db ELSE openDB(db)

\* The key an autoIncrement store gives an entry added without one: the
\* current number of its key generator, which only ever goes up.
generateKey_lastPlusOne(db) ==
    IF db.items = <<>> THEN 1 ELSE db.items[Len(db.items)].id + 1
generateKey(db) == db.keyGen

\* saveItemToGallery(itemFile): the database after it and the id returned.
saveItemToGallery(db, itemFile, now) ==
    LET id == generateKey(db)
    IN  [db |-> [db EXCEPT !.items = Append(@, [id |-> id,
                                                  file |-> itemFile,
                                                  createdAt |-> now]),
                           !.keyGen = id + 1],
         id |-> id]

\* Array.prototype.sort with (a, b) => b.createdAt - a.createdAt: a stable
\* sort, so entries that compare equal keep the order they came in.
RECURSIVE sortNewestFirst(_)
insertNewestFirst(sorted, item) ==
    LET before == SelectSeq(sorted,
                            LAMBDA x : x.createdAt >= item.createdAt)
        after == SelectSeq(sorted,
                           LAMBDA x : x.createdAt < item.createdAt)
    IN  before \o <<item>> \o after
sortNewestFirst(items) ==
    IF items = <<>> THEN <<>>
    ELSE insertNewestFirst(sortNewestFirst(SubSeq(items, 1,
                                                   Len(items) - 1)),
                           items[Len(items)])

\* getAllItemsFromGallery(): store.getAll() returns the entries in key
\* order, and the result is sorted in place.
getAllItemsFromGallery(db) == sortNewestFirst(db.items)

\* deleteItemFromGallery(id): store.delete(id) succeeds whether or not an
\* entry has the key.
deleteItemFromGallery_upTo(db, id) ==
    [db EXCEPT !.items = SelectSeq(@, LAMBDA x : x.id > id)]
deleteItemFromGallery(db, id) ==
    [db EXCEPT !.items = SelectSeq(@, LAMBDA x : x.id # id)]

NoDbCall == [op |-> "none", id |-> 0, file |-> NoFile, pre |-> NoDatabase,
             reloads |-> 0, issued |-> {}]

\* The variables of the gallery store while it is not studied.
GalleryOff ==
    /\ disk = NoDatabase
    /\ dbPromise = FALSE
    /\ clock = 0
    /\ galleryItems = <<>>
    /\ dbLog = NoDbCall

\* --------------------------------------------------- generation panels
\* ImageGenerationPanel before handleGenerate is called.
NoGeneration == [phase |-> "idle", file |-> NoFile, handed |-> 0,
                 saved |-> FALSE]

\* VideoGenerationPanel before StartScreen has shown it.
NoVideoPanel == [mounted |-> FALSE, instance |-> 0, isGenerating |-> FALSE,
                 generatedVideoUrl |-> NoFile, runs |-> {}]

\* handleSaveToGallery up to its await: nothing without a current image.
handleSaveToGallery ==
    IF currentImage # NoFile
    THEN <<setIsLoading(TRUE), setError(NoError)>>
    ELSE <<>>

\* handleSaveToGallery after saveItemToGallery: the toast or the catch,
\* then finally.
afterGallerySave_moveToGallery(ok) ==
    IF ok
    THEN <<setHistory(<<>>), setHistoryIndex(-1), setIsLoading(FALSE)>>
    ELSE <<setError("save to gallery failed"), setIsLoading(FALSE)>>
afterGallerySave(ok) ==
    IF ok THEN <<setIsLoading(FALSE)>>
    ELSE <<setError("save to gallery failed"), setIsLoading(FALSE)>>

\* if (error) in renderContent: null and the empty string show no error.
errorShown == error \notin {NoError, ""}

\* ImageGenerationPanel.handleGenerate up to its await; onError is App's
\* setError.
genBeforeAwait(promptGiven) ==
    IF ~promptGiven THEN <<setError("generate: no prompt")>>
    ELSE <<setError("")>>

\* Its catch block: generateImage rejected or dataURLtoFile threw.
genCatch == <<setError("generate: failed")>>

\* After the auto-save, saved or not (the inner catch only logs):
\* onImageGenerated(imageFile), which is handleImageUpload.
genAfterSave_onlyIfSaved(ok, imageFile) ==
    IF ok THEN handleImageUpload(imageFile)
    ELSE <<setError("generate: auto-save failed")>>
genAfterSave(ok, imageFile) == handleImageUpload(imageFile)

\* The variables of the panels while they are not studied.
PanelOff ==
    /\ gen = NoGeneration
    /\ saving = NoFile
    /\ video = NoVideoPanel
    /\ videoUrls = [created |-> 0, revoked |-> {}]

InitStack ==
    /\ \E h \in StoredHistories, x \in StoredIndexes :
          LET initialState == loadInitialState(h, x)
              n == Len(initialState.history)
          IN  /\ history = [k \in 1..n |-> k]
              /\ historyIndex = initialState.historyIndex
              /\ nextFile = n + 1
    /\ isLoading = FALSE
    /\ error = NoError
    /\ pending = NoPending
    /\ txn = [op |-> "init", file |-> NoFile,
              pre |-> [history |-> <<>>, historyIndex |-> -1],
              touched |-> FALSE, errors |-> 0, setsHistory |-> FALSE]
    /\ clearedClean = FALSE
    /\ UrlInit

Init ==
    /\ InitStack
    /\ CodecOff
    /\ SaveOff
    /\ GalleryOff
    /\ PanelOff

\* A File delivered by the start screen: chosen, dropped, or generated by
\* ImageGenerationPanel, whose continuation may run in any later state.
ImageUpload ==
    /\ nextFile <= MaxFiles
    /\ Run("upload", nextFile, handleImageUpload(nextFile))
    /\ nextFile' = nextFile + 1
    /\ Touch
    /\ clearedClean' = FALSE

\* "Edit" on a gallery card.
NavigateToEditorWithFile ==
    /\ nextFile <= MaxFiles
    /\ Run("galleryEdit", nextFile, handleNavigateToEditor(nextFile))
    /\ nextFile' = nextFile + 1
    /\ Touch
    /\ clearedClean' = FALSE

\* "Back to editor" on the empty gallery.
NavigateToEditor ==
    /\ Run("galleryBack", NoFile, handleNavigateToEditor(NoFile))
    /\ UNCHANGED <<pending, nextFile, clearedClean>>

Undo ==
    /\ Run("undo", NoFile, handleUndo)
    /\ Touch
    /\ UNCHANGED <<nextFile, clearedClean>>

Redo ==
    /\ Run("redo", NoFile, handleRedo)
    /\ Touch
    /\ UNCHANGED <<nextFile, clearedClean>>

Reset ==
    /\ Run("reset", NoFile, handleReset)
    /\ Touch
    /\ UNCHANGED <<nextFile, clearedClean>>

\* "New upload" button and the generate tab.
UploadNew ==
    /\ Run("clear", NoFile, handleUploadNew)
    /\ Touch
    /\ clearedClean' = TRUE
    /\ UNCHANGED nextFile

\* CropPanel's apply button is disabled while isLoading.
ApplyCrop ==
    /\ ~isLoading
    /\ \E selected \in BOOLEAN, ctx \in BOOLEAN :
          IF selected /\ ctx
          THEN /\ nextFile <= MaxFiles
               /\ Run("crop", nextFile,
                      handleApplyCrop(selected, ctx, nextFile))
               /\ nextFile' = nextFile + 1
               /\ clearedClean' = FALSE
          ELSE /\ Run("cropRejected", NoFile,
                      handleApplyCrop(selected, ctx, NoFile))
               /\ UNCHANGED <<nextFile, clearedClean>>
    /\ UNCHANGED pending

\* The four AI controls are disabled while isLoading.
StartAI(kind, promptGiven, hotspotGiven) ==
    LET ups == beforeAwait(kind, promptGiven, hotspotGiven)
        started == ups[1].cell = "isLoading"
    IN  /\ ~isLoading
        /\ Run(IF started THEN "aiStart" ELSE "aiRejected", NoFile, ups)
        /\ pending' = IF started
                      THEN [kind |-> kind, history |-> history,
                            historyIndex |-> historyIndex, touched |-> FALSE]
                      ELSE pending
        /\ clearedClean' = IF started THEN FALSE ELSE clearedClean
        /\ UNCHANGED nextFile

Generate ==
    \E promptGiven \in BOOLEAN, hotspotGiven \in BOOLEAN :
        StartAI("edit", promptGiven, hotspotGiven)
ApplyFilter == StartAI("filter", TRUE, TRUE)
ApplyAdjustment == StartAI("adjust", TRUE, TRUE)
UpscaleImage == StartAI("upscale", TRUE, TRUE)

\* The AI call resolved and its data URL decoded.
AwaitResolved ==
    /\ pending.kind # "none"
    /\ nextFile <= MaxFiles
    /\ Run("aiResolved", nextFile,
           afterAwait(pending.kind, pending.history, pending.historyIndex,
                      TRUE, nextFile))
    /\ nextFile' = nextFile + 1
    /\ pending' = NoPending
    /\ UNCHANGED clearedClean

\* The AI call rejected or its result did not decode.
AwaitRejected ==
    /\ pending.kind # "none"
    /\ Run("aiFailed", NoFile,
           afterAwait(pending.kind, pending.history, pending.historyIndex,
                      FALSE, NoFile))
    /\ pending' = NoPending
    /\ UNCHANGED <<nextFile, clearedClean>>

\* The "retry" button of the error screen.
DismissError ==
    /\ error # NoError
    /\ Run("dismissError", NoFile, <<setError(NoError)>>)
    /\ UNCHANGED <<pending, nextFile, clearedClean>>


Next ==
    \/ ImageUpload /\ UNCHANGED <<urlVars, codecVars, saveVars, galleryVars, panelVars>>
    \/ NavigateToEditorWithFile /\ UNCHANGED <<urlVars, codecVars, saveVars, galleryVars, panelVars>>
    \/ NavigateToEditor /\ UNCHANGED <<urlVars, codecVars, saveVars, galleryVars, panelVars>>
    \/ Undo /\ UNCHANGED <<urlVars, codecVars, saveVars, galleryVars, panelVars>>
    \/ Redo /\ UNCHANGED <<urlVars, codecVars, saveVars, galleryVars, panelVars>>
    \/ Reset /\ UNCHANGED <<urlVars, codecVars, saveVars, galleryVars, panelVars>>
    \/ UploadNew /\ UNCHANGED <<urlVars, codecVars, saveVars, galleryVars, panelVars>>
    \/ ApplyCrop /\ UNCHANGED <<urlVars, codecVars, saveVars, galleryVars, panelVars>>
    \/ Generate /\ UNCHANGED <<urlVars, codecVars, saveVars, galleryVars, panelVars>>
    \/ ApplyFilter /\ UNCHANGED <<urlVars, codecVars, saveVars, galleryVars, panelVars>>
    \/ ApplyAdjustment /\ UNCHANGED <<urlVars, codecVars, saveVars, galleryVars, panelVars>>
    \/ UpscaleImage /\ UNCHANGED <<urlVars, codecVars, saveVars, galleryVars, panelVars>>
    \/ AwaitResolved /\ UNCHANGED <<urlVars, codecVars, saveVars, galleryVars, panelVars>>
    \/ AwaitRejected /\ UNCHANGED <<urlVars, codecVars, saveVars, galleryVars, panelVars>>
    \/ DismissError /\ UNCHANGED <<urlVars, codecVars, saveVars, galleryVars, panelVars>>

Spec == Init /\ [][Next]_vars

\* A handler runs once the effects of the previous commit have run and
\* their setState calls are rendered.
UrlHandler(A) == Settled /\ A /\ UNCHANGED <<urlVars, codecVars, saveVars, galleryVars, panelVars>>

NextUrls ==
    \/ UrlHandler(ImageUpload)
    \/ UrlHandler(NavigateToEditorWithFile)
    \/ UrlHandler(NavigateToEditor)
    \/ UrlHandler(Undo)
    \/ UrlHandler(Redo)
    \/ UrlHandler(Reset)
    \/ UrlHandler(UploadNew)
    \/ UrlHandler(ApplyCrop)
    \/ UrlHandler(Generate)
    \/ UrlHandler(ApplyFilter)
    \/ UrlHandler(ApplyAdjustment)
    \/ UrlHandler(UpscaleImage)
    \/ UrlHandler(AwaitResolved)
    \/ UrlHandler(AwaitRejected)
    \/ UrlHandler(DismissError)
    \/ FlushEffects
    \/ Rerender
    \/ Unmount

SpecUrls == Init /\ [][NextUrls]_vars

\* Save and restore on their own: the page is either closed, with some
\* content in localStorage, or open, with a stack of Files in memory.
\* Opening it runs loadInitialState; closing it follows a save of the
\* stack that ran to its end.
\* Stacks the page can hold: any Files, the index on one of them.
Stacks ==
    {[history |-> <<>>, historyIndex |-> -1]}
    \cup {[history |-> h, historyIndex |-> i] :
            h \in SeqsUpTo(Files, MaxStored) \ {<<>>}, i \in 0..(MaxStored - 1)}

InitCodec ==
    /\ history = <<>>
    /\ historyIndex = -1
    /\ nextFile = 1
    /\ isLoading = FALSE
    /\ error = NoError
    /\ pending = NoPending
    /\ txn = [op |-> "init", file |-> NoFile,
              pre |-> [history |-> <<>>, historyIndex |-> -1],
              touched |-> FALSE, errors |-> 0, setsHistory |-> FALSE]
    /\ clearedClean = FALSE
    /\ UrlInit
    /\ SaveOff
    /\ GalleryOff
    /\ PanelOff
    /\ untypedMime \in UntypedMimes
    /\ \/ /\ \E h \in StoredHistories, x \in StoredIndexes :
                ls = [history |-> h, historyIndex |-> x]
          /\ session = [NoSession EXCEPT !.phase = "closed"]
       \/ /\ ls = [history |-> NoHistoryKey, historyIndex |-> NoIndexKey]
          /\ \E st \in Stacks :
                /\ st.historyIndex < Len(st.history)
                /\ session = [NoSession EXCEPT !.phase = "open",
                                               !.history = st.history,
                                               !.historyIndex = st.historyIndex]

\* The page is opened: const initialState = loadInitialState().
OpenPage ==
    /\ session.phase = "closed"
    /\ LET initialState == loadInitialState(ls.history, ls.historyIndex)
       IN  /\ session' = [session EXCEPT
                            !.phase = "restored",
                            !.history = initialState.history,
                            !.historyIndex = initialState.historyIndex,
                            !.found = ls]
           /\ ls' = afterLoad(ls, initialState)
    /\ UNCHANGED <<coreVars, urlVars, untypedMime, saveVars, galleryVars, panelVars>>

\* The save effect for the stack in memory runs to its end; the page is
\* then closed.
SaveAndClose ==
    /\ session.phase \in {"open", "restored"}
    /\ ls' = saveState(session.history, session.historyIndex)
    /\ session' = [session EXCEPT
                     !.phase = "closed",
                     !.saved = [history |-> session.history,
                                historyIndex |-> session.historyIndex]]
    /\ UNCHANGED <<coreVars, urlVars, untypedMime, saveVars, galleryVars, panelVars>>

NextCodec ==
    \/ OpenPage
    \/ SaveAndClose

SpecCodec == InitCodec /\ [][NextCodec]_vars

\* The stack with its save effect.  The first render has run the effect:
\* localStorage holds what the page restored, and a run of saveState for
\* the restored stack is waiting.
InitSave ==
    /\ InitStack
    /\ untypedMime = "application/octet-stream"
    /\ session = NoSession
    /\ ls = saveState(filesOf(history), historyIndex)
    /\ writes = IF awaits(Stack) THEN {Stack} ELSE {}
    /\ saveFailures = 0
    /\ GalleryOff
    /\ PanelOff

\* A handler and the save effect of its commit.
SaveHandler(A) ==
    /\ A
    /\ nextFile' <= MaxSaveFiles + 1
    /\ SaveEffect
    /\ Cardinality(writes') <= MaxWrites
    /\ UNCHANGED <<urlVars, untypedMime, session, galleryVars, panelVars>>

NextSave ==
    \/ SaveHandler(ImageUpload)
    \/ SaveHandler(NavigateToEditorWithFile)
    \/ SaveHandler(NavigateToEditor)
    \/ SaveHandler(Undo)
    \/ SaveHandler(Redo)
    \/ SaveHandler(Reset)
    \/ SaveHandler(UploadNew)
    \/ SaveHandler(ApplyCrop)
    \/ SaveHandler(Generate)
    \/ SaveHandler(ApplyFilter)
    \/ SaveHandler(ApplyAdjustment)
    \/ SaveHandler(UpscaleImage)
    \/ SaveHandler(AwaitResolved)
    \/ SaveHandler(AwaitRejected)
    \/ SaveHandler(DismissError)
    \/ WriteCompletes
    \/ WriteFails

SpecSave == InitSave /\ [][NextSave]_vars

\* ------------------------------------------------ the gallery store alone
\* The stack of a page that restored nothing.
FreshStack ==
    /\ history = <<>>
    /\ historyIndex = -1
    /\ nextFile = 1
    /\ isLoading = FALSE
    /\ error = NoError
    /\ pending = NoPending
    /\ txn = [op |-> "init", file |-> NoFile,
              pre |-> [history |-> <<>>, historyIndex |-> -1],
              touched |-> FALSE, errors |-> 0, setsHistory |-> FALSE]
    /\ clearedClean = FALSE
    /\ UrlInit

\* What a browser may hold when the page first opens the database: none,
\* or the database of version 1, with or without its 'saved-images' store.
PriorDatabases ==
    {NoDatabase,
     [NoDatabase EXCEPT !.version = 1],
     [NoDatabase EXCEPT !.version = 1, !.stores = {savedImagesStore}]}

InitDb ==
    /\ FreshStack
    /\ CodecOff
    /\ SaveOff
    /\ PanelOff
    /\ disk \in PriorDatabases
    /\ dbPromise = FALSE
    /\ clock = 0
    /\ galleryItems = <<>>
    /\ dbLog = NoDbCall

\* The record of one call into db.ts; the id of the save before it joins
\* the ids handed out.
DbCall(op, id, file) ==
    dbLog' = [op |-> op, id |-> id, file |-> file, pre |-> disk,
              reloads |-> dbLog.reloads,
              issued |-> dbLog.issued \cup
                         (IF dbLog.op = "save" THEN {dbLog.id} ELSE {})]

\* saveItemToGallery(file) runs to its end.
SaveItem ==
    /\ \E file \in 1..MaxMedia :
          LET saved == saveItemToGallery(initDB(disk, dbPromise), file,
                                         clock)
          IN  /\ saved.id <= MaxItems
              /\ disk' = saved.db
              /\ DbCall("save", saved.id, file)
    /\ dbPromise' = TRUE
    /\ UNCHANGED <<clock, galleryItems>>
    /\ UNCHANGED <<coreVars, urlVars, codecVars, saveVars, panelVars>>

\* Gallery.loadItems: getAllItemsFromGallery() and setItems.
LoadItemsAnd(Logged) ==
    /\ disk' = initDB(disk, dbPromise)
    /\ galleryItems' = getAllItemsFromGallery(disk')
    /\ Logged
    /\ dbPromise' = TRUE
    /\ UNCHANGED clock
    /\ UNCHANGED <<coreVars, urlVars, codecVars, saveVars, panelVars>>

\* Gallery.handleDelete(id), confirmed: deleteItemFromGallery(id) and the
\* filter of the items shown.
DeleteItemAnd(logged) ==
    /\ \E id \in 1..MaxItems :
          /\ disk' = deleteItemFromGallery(initDB(disk, dbPromise), id)
          /\ galleryItems' = SelectSeq(galleryItems, LAMBDA x : x.id # id)
          /\ IF logged THEN DbCall("delete", id, NoFile)
             ELSE UNCHANGED dbLog
    /\ dbPromise' = TRUE
    /\ UNCHANGED clock
    /\ UNCHANGED <<coreVars, urlVars, codecVars, saveVars, panelVars>>

LoadItems == LoadItemsAnd(DbCall("getAll", 0, NoFile))

DeleteItem == DeleteItemAnd(TRUE)

\* A millisecond passes.
Tick ==
    /\ clock < MaxClock
    /\ clock' = clock + 1
    /\ UNCHANGED <<disk, dbPromise, galleryItems, dbLog>>
    /\ UNCHANGED <<coreVars, urlVars, codecVars, saveVars, panelVars>>

\* The page is reloaded: the module variable dbPromise and the state of
\* Gallery start over, the database stays.
Reload ==
    /\ dbLog.reloads < MaxReloads
    /\ dbPromise' = FALSE
    /\ galleryItems' = <<>>
    /\ dbLog' = [dbLog EXCEPT !.reloads = @ + 1,
                              !.op = "reload",
                              !.issued = @ \cup (IF dbLog.op = "save"
                                                 THEN {dbLog.id} ELSE {})]
    /\ UNCHANGED <<disk, clock>>
    /\ UNCHANGED <<coreVars, urlVars, codecVars, saveVars, panelVars>>

NextDb ==
    \/ SaveItem
    \/ LoadItems
    \/ DeleteItem
    \/ Tick
    \/ Reload

SpecDb == InitDb /\ [][NextDb]_vars

\* ------------------------------------------- the stack and the gallery
\* The editor with its save effect, the gallery view, the toolbar's
\* save-to-gallery button and the image generation panel.
InitGallery ==
    /\ FreshStack
    /\ untypedMime = "application/octet-stream"
    /\ session = NoSession
    /\ ls = saveState(<<>>, -1)
    /\ SaveOff
    /\ GalleryOff
    /\ PanelOff

\* A handler and the save effect of its commit.  The handlers are taken
\* one at a time here: each runs once the run of saveState the commit
\* before it started is over.
GalleryHandler(A) ==
    /\ writes = {}
    /\ A
    /\ nextFile' <= MaxSaveFiles + 1
    /\ SaveEffect
    /\ UNCHANGED <<urlVars, untypedMime, session>>

\* A handler of the editor: it does not reach db.ts or the panels.
EditorHandler(A) == GalleryHandler(A) /\ UNCHANGED <<galleryVars, panelVars>>

\* The save-to-gallery button, disabled while isLoading.
SaveToGallery ==
    /\ ~isLoading
    /\ currentImage # NoFile
    /\ Run("gallerySave", currentImage, handleSaveToGallery)
    /\ saving' = currentImage
    /\ UNCHANGED <<pending, nextFile, clearedClean>>
    /\ UNCHANGED <<galleryVars, gen, video, videoUrls>>

\* saveItemToGallery(currentImage) is over: the entry is stored, or the
\* add failed after the database was opened.
GallerySaved ==
    /\ saving # NoFile
    /\ \E ok \in BOOLEAN :
          LET db == initDB(disk, dbPromise)
              saved == saveItemToGallery(db, saving, clock)
          IN  /\ ok => saved.id <= MaxEntries
              /\ disk' = IF ok THEN saved.db ELSE db
              /\ Run(IF ok THEN "gallerySaved" ELSE "gallerySaveFailed",
                     saving, afterGallerySave(ok))
    /\ dbPromise' = TRUE
    /\ saving' = NoFile
    /\ UNCHANGED <<pending, nextFile, clearedClean>>
    /\ UNCHANGED <<clock, galleryItems, dbLog, gen, video, videoUrls>>

\* "Edit" on a card of the gallery: Gallery.handleEdit(item.file).
EditFromGallery ==
    /\ \E k \in DOMAIN galleryItems :
          Run("galleryEdit", galleryItems[k].file,
              handleNavigateToEditor(galleryItems[k].file))
    /\ Touch
    /\ clearedClean' = FALSE
    /\ UNCHANGED nextFile
    /\ UNCHANGED <<galleryVars, panelVars>>

\* The generate button of ImageGenerationPanel, which the start screen
\* shows for an empty stack and is disabled while isGenerating.
GenerateImage ==
    /\ history = <<>>
    /\ ~errorShown
    /\ gen.phase = "idle"
    /\ \E promptGiven \in BOOLEAN :
          /\ Run(IF promptGiven THEN "genStart" ELSE "genRejected", NoFile,
                 genBeforeAwait(promptGiven))
          /\ gen' = IF promptGiven
                    THEN [NoGeneration EXCEPT !.phase = "generating"]
                    ELSE gen
    /\ UNCHANGED <<pending, nextFile, clearedClean>>
    /\ UNCHANGED <<galleryVars, saving, video, videoUrls>>

\* generateImage resolved and its data URL decoded to a File; the
\* auto-save starts.  No state of App is set.
GenResolved ==
    /\ gen.phase = "generating"
    /\ gen' = [NoGeneration EXCEPT !.phase = "saving", !.file = nextFile]
    /\ nextFile' = nextFile + 1
    /\ UNCHANGED <<history, historyIndex, isLoading, error, pending, txn,
                   clearedClean>>
    /\ UNCHANGED <<galleryVars, saving, video, videoUrls>>

\* generateImage rejected, or dataURLtoFile threw.
GenFailed ==
    /\ gen.phase = "generating"
    /\ Run("genFailed", NoFile, genCatch)
    /\ gen' = NoGeneration
    /\ UNCHANGED <<pending, nextFile, clearedClean>>
    /\ UNCHANGED <<galleryVars, saving, video, videoUrls>>

\* The auto-save is over, stored or failed, and the continuation hands
\* the File to onImageGenerated.
GenAutoSaved ==
    /\ gen.phase = "saving"
    /\ \E ok \in BOOLEAN :
          LET db == initDB(disk, dbPromise)
              saved == saveItemToGallery(db, gen.file, clock)
              ups == genAfterSave(ok, gen.file)
          IN  /\ ok => saved.id <= MaxEntries
              /\ disk' = IF ok THEN saved.db ELSE db
              /\ Run("genHanded", gen.file, ups)
              /\ gen' = [phase |-> "idle", file |-> gen.file,
                         handed |-> Cardinality({k \in DOMAIN ups :
                                        ups[k].cell = "history"}),
                         saved |-> ok]
    /\ dbPromise' = TRUE
    /\ Touch
    /\ clearedClean' = FALSE
    /\ UNCHANGED nextFile
    /\ UNCHANGED <<clock, galleryItems, dbLog, saving, video, videoUrls>>

NextGallery ==
    \/ EditorHandler(ImageUpload)
    \/ EditorHandler(Undo)
    \/ EditorHandler(Redo)
    \/ EditorHandler(Reset)
    \/ EditorHandler(UploadNew)
    \/ EditorHandler(ApplyCrop)
    \/ GalleryHandler(EditFromGallery)
    \/ GalleryHandler(SaveToGallery)
    \/ GalleryHandler(GallerySaved)
    \/ GalleryHandler(GenerateImage)
    \/ GalleryHandler(GenResolved)
    \/ GalleryHandler(GenFailed)
    \/ GalleryHandler(GenAutoSaved)
    \/ LoadItemsAnd(UNCHANGED dbLog)
    \/ DeleteItemAnd(FALSE)
    \/ WriteCompletes

SpecGallery == InitGallery /\ [][NextGallery]_vars

\* ------------------------------------------------- the video panel
\* VideoGenerationPanel inside the start screen of an empty stack.
InitVideo ==
    /\ FreshStack
    /\ CodecOff
    /\ SaveOff
    /\ GalleryOff
    /\ PanelOff

\* The cells of a panel that is not on screen.
unmounted(panel) ==
    [panel EXCEPT !.mounted = FALSE, !.isGenerating = FALSE,
                  !.generatedVideoUrl = NoFile]

\* onError(message) with a message: App renders its error screen in place
\* of the start screen, and the panel with it is unmounted.
errorScreen(panel, ups) ==
    IF \E k \in DOMAIN ups : ups[k].cell = "error"
                             /\ ups[k].val \notin {NoError, ""}
    THEN unmounted(panel) ELSE panel

\* The run's own setState calls reach the panel only while the instance
\* that started the run is the one on screen.
ownPanel(run) == video.mounted /\ video.instance = run.instance

\* The "video" tab of GenerationHub is chosen on the start screen.
MountVideoPanel ==
    /\ ~video.mounted
    /\ ~errorShown
    /\ video.instance < MaxPanels
    /\ video' = [unmounted(video) EXCEPT !.mounted = TRUE,
                                         !.instance = @ + 1]
    /\ UNCHANGED <<gen, saving, videoUrls>>
    /\ UNCHANGED <<coreVars, urlVars, codecVars, saveVars, galleryVars>>

\* The other tab, the upload mode or the gallery is chosen: the panel is
\* unmounted.  It has no effect that cleans up generatedVideoUrl.
UnmountVideoPanel ==
    /\ video.mounted
    /\ video' = unmounted(video)
    /\ UNCHANGED <<gen, saving, videoUrls>>
    /\ UNCHANGED <<coreVars, urlVars, codecVars, saveVars, galleryVars>>

\* handleGenerateVideo up to its await; the form is on screen while the
\* panel neither generates nor shows a video.
GenerateVideo ==
    /\ video.mounted
    /\ ~video.isGenerating
    /\ video.generatedVideoUrl = NoFile
    /\ videoUrls.created + Cardinality(video.runs) < MaxVideos
    /\ \E promptGiven \in BOOLEAN :
          LET ups == IF promptGiven THEN <<setError("")>>
                     ELSE <<setError("video: no prompt")>>
          IN  /\ Run(IF promptGiven THEN "videoStart" ELSE "videoRejected",
                     NoFile, ups)
              /\ video' = IF promptGiven
                          THEN [video EXCEPT
                                  !.isGenerating = TRUE,
                                  !.generatedVideoUrl = NoFile,
                                  !.runs = @ \cup
                                    {[instance |-> video.instance,
                                      phase |-> "generating",
                                      url |-> NoFile]}]
                          ELSE errorScreen(video, ups)
    /\ UNCHANGED <<pending, nextFile, clearedClean>>
    /\ UNCHANGED <<gen, saving, videoUrls>>
    /\ UNCHANGED <<urlVars, codecVars, saveVars, galleryVars>>

\* generateVideo resolved: it has downloaded the video and returns
\* URL.createObjectURL(videoBlob); setGeneratedVideoUrl(videoUrl).
VideoResolved ==
    /\ \E run \in video.runs :
          /\ run.phase = "generating"
          /\ LET url == videoUrls.created + 1
                 runs == (video.runs \ {run}) \cup
                         {[run EXCEPT !.phase = "autosave", !.url = url]}
             IN  /\ videoUrls' = [videoUrls EXCEPT !.created = url]
                 /\ video' = IF ownPanel(run)
                             THEN [video EXCEPT !.generatedVideoUrl = url,
                                                !.runs = runs]
                             ELSE [video EXCEPT !.runs = runs]
    /\ UNCHANGED <<gen, saving>>
    /\ UNCHANGED <<coreVars, urlVars, codecVars, saveVars, galleryVars>>

\* generateVideo rejected: onError(message), finally setIsGenerating(false).
VideoRejected ==
    /\ \E run \in video.runs :
          /\ run.phase = "generating"
          /\ LET ups == <<setError("video: failed")>>
             IN  /\ Run("videoFailed", NoFile, ups)
                 /\ video' = [errorScreen(video, ups) EXCEPT
                                !.runs = @ \ {run}]
    /\ UNCHANGED <<pending, nextFile, clearedClean>>
    /\ UNCHANGED <<gen, saving, videoUrls>>
    /\ UNCHANGED <<urlVars, codecVars, saveVars, galleryVars>>

\* The auto-save is over: fetch(videoUrl), a File of its blob and
\* saveItemToGallery, or the inner catch; finally setIsGenerating(false).
VideoAutoSaved ==
    /\ \E run \in video.runs, ok \in BOOLEAN :
          /\ run.phase = "autosave"
          /\ ok => run.url \notin videoUrls.revoked
          /\ LET db == initDB(disk, dbPromise)
                 saved == saveItemToGallery(db, run.url, clock)
             IN  /\ ok => saved.id <= MaxItems
                 /\ disk' = IF ok THEN saved.db ELSE db
          /\ video' = IF ownPanel(run)
                      THEN [video EXCEPT !.isGenerating = FALSE,
                                         !.runs = @ \ {run}]
                      ELSE [video EXCEPT !.runs = @ \ {run}]
    /\ dbPromise' = TRUE
    /\ UNCHANGED <<clock, galleryItems, dbLog>>
    /\ UNCHANGED <<gen, saving, videoUrls>>
    /\ UNCHANGED <<coreVars, urlVars, codecVars, saveVars>>

\* handleStartOver, the button under the finished video.
StartOver ==
    /\ video.mounted
    /\ ~video.isGenerating
    /\ video.generatedVideoUrl # NoFile
    /\ videoUrls' = [videoUrls EXCEPT
                       !.revoked = @ \cup {video.generatedVideoUrl}]
    /\ video' = [video EXCEPT !.generatedVideoUrl = NoFile,
                              !.isGenerating = FALSE]
    /\ Run("videoStartOver", NoFile, <<setError("")>>)
    /\ UNCHANGED <<pending, nextFile, clearedClean>>
    /\ UNCHANGED <<gen, saving>>
    /\ UNCHANGED <<urlVars, codecVars, saveVars, galleryVars>>

\* The retry button of the error screen brings the start screen back.
VideoDismissError ==
    /\ errorShown
    /\ DismissError
    /\ UNCHANGED <<urlVars, codecVars, saveVars, galleryVars, panelVars>>

NextVideo ==
    \/ MountVideoPanel
    \/ UnmountVideoPanel
    \/ GenerateVideo
    \/ VideoResolved
    \/ VideoRejected
    \/ VideoAutoSaved
    \/ StartOver
    \/ VideoDismissError

\* The calls a run waits for come back: the network and IndexedDB answer.
SpecVideo ==
    /\ InitVideo
    /\ [][NextVideo]_vars
    /\ WF_vars(VideoResolved \/ VideoRejected)
    /\ WF_vars(VideoAutoSaved)

\* ---------------------------------------------------------------- claims
\* The stack a correct append leaves: s[0..i] followed by the new File.
Appended(s, i, file) == Append(SubSeq(s, 1, i + 1), file)

\* C1: in every reachable state currentIndex is -1 when the sequence is
\* empty and otherwise a valid index, 0 <= currentIndex <= length - 1.
C1_IndexInRange ==
    IF history = <<>> THEN historyIndex = -1
    ELSE historyIndex >= 0 /\ historyIndex <= Len(history) - 1
\* An AI result was appended to a history that already had entries.
C1_Witness ==
    /\ txn.op = "aiResolved"
    /\ Len(history) >= 2
    /\ historyIndex = Len(history) - 1

\* C2: append(media) on a stack (s, i) yields s[0..i] followed by media
\* with currentIndex on the new last entry: the entries after i are
\* discarded, the entries up to i are kept in order.
C2_AppendTruncates ==
    txn.op \in {"crop", "aiResolved"} =>
        /\ history = Appended(txn.pre.history, txn.pre.historyIndex, txn.file)
        /\ historyIndex = Len(history) - 1

\* C3: undo decrements currentIndex by one and keeps the sequence when
\* currentIndex > 0; otherwise it changes neither.
C3_Undo ==
    txn.op = "undo" =>
        /\ history = txn.pre.history
        /\ historyIndex = IF txn.pre.historyIndex > 0
                          THEN txn.pre.historyIndex - 1
                          ELSE txn.pre.historyIndex
\* An undo that moved the index.
C3_Witness ==
    /\ txn.op = "undo"
    /\ txn.pre.historyIndex > 0
    /\ historyIndex = txn.pre.historyIndex - 1

\* C4: redo increments currentIndex by one and keeps the sequence when
\* currentIndex < length - 1; otherwise it changes neither.
C4_Redo ==
    txn.op = "redo" =>
        /\ history = txn.pre.history
        /\ historyIndex =
              IF txn.pre.historyIndex < Len(txn.pre.history) - 1
              THEN txn.pre.historyIndex + 1
              ELSE txn.pre.historyIndex
\* A redo that moved the index.
C4_Witness ==
    /\ txn.op = "redo"
    /\ txn.pre.historyIndex < Len(txn.pre.history) - 1
    /\ historyIndex = txn.pre.historyIndex + 1

\* C5: reset on a non-empty stack sets currentIndex to 0 and keeps the
\* whole sequence; reset on an empty stack changes nothing.
C5_Reset ==
    txn.op = "reset" =>
        /\ history = txn.pre.history
        /\ historyIndex = IF txn.pre.history # <<>> THEN 0
                          ELSE txn.pre.historyIndex
\* A reset from a later entry of a longer history.
C5_Witness ==
    /\ txn.op = "reset"
    /\ txn.pre.historyIndex >= 1
    /\ Len(history) >= 2
    /\ historyIndex = 0

\* C6: replaceAll(media) yields the one-entry sequence [media] with
\* currentIndex 0 from any prior stack.
C6_ReplaceAll ==
    txn.op \in {"upload", "galleryEdit"} =>
        /\ history = <<txn.file>>
        /\ historyIndex = 0
\* A replaceAll over a history of several entries.
C6_Witness ==
    /\ txn.op \in {"upload", "galleryEdit"}
    /\ Len(txn.pre.history) >= 2
    /\ history = <<txn.file>>

\* C7: clear yields the empty sequence with currentIndex -1, and the stack
\* stays empty until the next replaceAll or append requested after it.
C7_ClearStaysEmpty ==
    (txn.op = "clear" \/ clearedClean) =>
        /\ history = <<>>
        /\ historyIndex = -1

\* C8: canUndo holds exactly when undo would change the state, that is
\* when there is an entry before the current one, and canRedo exactly when
\* redo would change it, that is when there is an entry after the current
\* one; on the empty stack both are false.
C8_CanUndoRedo ==
    /\ canUndo <=> (ApplyUpdates(State, handleUndo) # State)
    /\ canRedo <=> (ApplyUpdates(State, handleRedo) # State)
    /\ canUndo <=> at(history, historyIndex - 1) # NoFile
    /\ canRedo <=> at(history, historyIndex + 1) # NoFile
    /\ history = <<>> => ~canUndo /\ ~canRedo
\* Undo and redo both available, in the middle of a history.
C8_Witness ==
    /\ canUndo
    /\ canRedo
    /\ Len(history) >= 3

\* C9: an AI result that resolves after undo, redo, reset, clear or
\* replaceAll ran while it was pending is appended to the stack as it
\* stands at resolution time.
C9_AppendAtResolution ==
    (txn.op = "aiResolved" /\ txn.touched) =>
        /\ history = Appended(txn.pre.history, txn.pre.historyIndex, txn.file)
        /\ historyIndex = Len(history) - 1

\* C10: every step that installs a new sequence installs, in the same
\* commit, the currentIndex computed for that sequence (its last index):
\* no commit pairs the sequence of one mutation with the index of another.
C10_AtomicPair ==
    [][history' # history => historyIndex' = Len(history') - 1]_vars
\* An AI completion landed after a user command issued while it was pending.
C10_Witness ==
    /\ txn.op = "aiResolved"
    /\ txn.touched
    /\ txn.pre.history # history

\* C11: once index 0 holds an entry, that entry stays the same File through
\* every append (also one from an AI operation started earlier), undo,
\* redo and reset; only replaceAll and clear change it.
C11_OriginalKept ==
    [][(originalImage # NoFile
        /\ txn'.op \notin {"upload", "galleryEdit", "clear"})
       => originalImage' = originalImage]_vars

\* C12: when the AI call of an editor action fails or its result does not
\* decode, the step that handles the failure leaves history, historyIndex
\* and both roles' object URLs (the live ones and the two URL cells) as
\* they were, gives no effect a reason to run, and reports exactly one
\* error; when no stack command ran since the action started, the stack is
\* the one the action started on.
C12_FailureKeepsState ==
    [][(isLoading /\ txn'.op = "aiFailed")
       => /\ history' = history
          /\ historyIndex' = historyIndex
          /\ ~pending.touched => /\ history' = pending.history
                                 /\ historyIndex' = pending.historyIndex
          /\ liveUrls' = liveUrls
          /\ currentImageUrl' = currentImageUrl
          /\ originalImageUrl' = originalImageUrl
          /\ ~EffectsDue'
          /\ txn'.errors = 1
          /\ error' # NoError]_vars

\* An AI action failed after the user had moved in the stack meanwhile.
C12_Witness ==
    /\ txn.op = "aiFailed"
    /\ txn.touched
    /\ Len(history) >= 2
    /\ liveUrls["current"] = <<currentImage>>

\* C19: each role has at most one live object URL, in every state.
C19_AtMostOneLive ==
    \A role \in Roles : Len(liveUrls[role]) <= 1

\* The current role was rebound from the first entry to an appended one.
C19_Witness ==
    /\ txn.op = "aiResolved"
    /\ Settled
    /\ Len(history) >= 2
    /\ liveUrls["current"] = <<history[Len(history)]>>
    /\ liveUrls["original"] = <<history[1]>>

\* C20: once the effects of a commit have run, each role's live object URLs
\* are exactly the URL of the image the role shows now (none when it shows
\* none); after App unmounts no role has a live object URL.
C20_BoundToPresent ==
    /\ (mounted /\ ~EffectsDue) =>
          \A role \in Roles :
              liveUrls[role] = IF imageOf(role) = NoFile THEN <<>>
                               ELSE <<imageOf(role)>>
    /\ ~mounted => \A role \in Roles : liveUrls[role] = <<>>

\* An append was processed: both effects ran for the images the roles show
\* now; then App unmounted and the cleanups revoked both URLs.
C20_Witness ==
    /\ ~mounted
    /\ txn.op = "aiResolved"
    /\ Len(history) >= 2
    /\ effectDep["current"] = history[Len(history)]
    /\ effectDep["original"] = history[1]
    /\ liveUrls = [role \in Roles |-> <<>>]

\* The history the page found in localStorage decodes entirely: the key
\* is there, its text parses and every item yields a File.
FoundDecodable ==
    /\ session.found.history.present
    /\ session.found.history.parsable
    /\ \A k \in DOMAIN session.found.history.items :
          decoded(session.found.history.items)[k].ok

\* C13: a restore of n decodable entries with a stored index returns the n
\* entries in their order; the index is the stored one when it is a number
\* in 0..n-1, n-1 when it is out of range or not a number and n > 0, and
\* -1 when n = 0.
C13_RestoreKeepsEntries ==
    (session.phase = "restored" /\ FoundDecodable
     /\ session.found.historyIndex.present)
    => LET items == session.found.history.items
           n == Len(items)
           x == session.found.historyIndex
       IN  /\ session.history = [k \in 1..n |-> decoded(items)[k].file]
           /\ session.historyIndex =
                 IF ~x.isNaN /\ x.num >= 0 /\ x.num < n THEN x.num
                 ELSE IF n > 0 THEN n - 1 ELSE -1

C15_RoundTrip ==
    (session.phase = "restored" /\ session.saved.history # <<>>)
    => /\ session.history = session.saved.history
       /\ session.historyIndex = session.saved.historyIndex

\* What a restore from localStorage as it is now would return.
restoreNow ==
    LET initialState == loadInitialState(ls.history, ls.historyIndex)
    IN  [history |-> initialState.history,
         historyIndex |-> initialState.historyIndex]

\* The stack as Files.
asFiles(st) ==
    [history |-> filesOf(st.history), historyIndex |-> st.historyIndex]

\* C16: once every started run of saveState has completed and none has
\* failed, localStorage holds the serialization of the stack in memory
\* (no keys when the stack is empty): an older write never overwrites a
\* newer one.
C16_LatestStored ==
    (writes = {} /\ saveFailures = 0)
    => ls = saveState(filesOf(history), historyIndex)

\* C17: in every state (here: as long as no run of saveState has failed),
\* a restore from localStorage returns the stack in memory or the stack
\* before the most recent change of it.
C17_AtMostOneBehind ==
    (saveFailures = 0 /\ Stack # txn.pre)
    => restoreNow \in {asFiles(Stack), asFiles(txn.pre)}

\* C18: a run of saveState that throws changes neither the stack nor the
\* loading flag and sets no error; a change of the stack after a failure
\* starts a run of saveState for the new stack (or removes the keys when
\* the new stack is empty).
C18_FailureSwallowed ==
    [][/\ (saveFailures' # saveFailures)
          => /\ history' = history
             /\ historyIndex' = historyIndex
             /\ isLoading' = isLoading
             /\ error' = error
       /\ (saveFailures > 0 /\ Stack' # Stack)
          => IF awaits([history |-> history', historyIndex |-> historyIndex'])
             THEN [history |-> history', historyIndex |-> historyIndex']
                    \in writes'
             ELSE ls' = saveState(<<>>, -1)]_vars

\* After a failed run the user went back one entry; the run of saveState
\* for the new stack is waiting and no error is shown.
C18_Witness ==
    /\ saveFailures > 0
    /\ txn.op = "undo"
    /\ Stack # txn.pre
    /\ writes = {Stack}
    /\ ls # saveState(filesOf(history), historyIndex)
    /\ error = NoError

\* The entries of the store that have the id.
entriesWith(db, id) == {k \in DOMAIN db.items : db.items[k].id = id}

\* C21: a gallery save returns an id strictly greater than every id ever
\* handed out before, across deletions and page reloads, and the entry
\* stored under it holds the File that was saved.
C21_FreshId ==
    dbLog.op = "save" =>
        /\ \A j \in dbLog.issued : dbLog.id > j
        /\ Cardinality(entriesWith(disk, dbLog.id)) = 1
        /\ \A k \in entriesWith(disk, dbLog.id) :
              disk.items[k].file = dbLog.file
\* A save after a reload, while an id handed out earlier has no entry
\* any more.
C21_Witness ==
    /\ dbLog.op = "save"
    /\ dbLog.reloads >= 1
    /\ \E j \in dbLog.issued : entriesWith(disk, j) = {}

\* C22: listAll returns every entry exactly once, newest createdAt first,
\* and entries with equal createdAt by id descending.
C22_NewestFirst ==
    dbLog.op = "getAll" =>
        /\ Len(galleryItems) = Len(disk.items)
        /\ \A k \in DOMAIN disk.items :
              \E m \in DOMAIN galleryItems : galleryItems[m] = disk.items[k]
        /\ \A m, n \in DOMAIN galleryItems :
              m < n =>
                \/ galleryItems[m].createdAt > galleryItems[n].createdAt
                \/ /\ galleryItems[m].createdAt = galleryItems[n].createdAt
                   /\ galleryItems[m].id > galleryItems[n].id

\* C23: delete(id) removes exactly the entry with that id; for an id that
\* has no entry the store, and so what listAll returns, stays as it was.
C23_DeleteExactlyOne ==
    dbLog.op = "delete" =>
        LET before == initDB(dbLog.pre, FALSE)
        IN  /\ entriesWith(disk, dbLog.id) = {}
            /\ {disk.items[k] : k \in DOMAIN disk.items}
                 = {before.items[k] : k \in DOMAIN before.items
                                       \ entriesWith(before, dbLog.id)}
            /\ Len(disk.items)
                 = Len(before.items)
                   - Cardinality(entriesWith(before, dbLog.id))
            /\ entriesWith(before, dbLog.id) = {} =>
                 getAllItemsFromGallery(disk)
                   = getAllItemsFromGallery(before)
\* An entry was removed and an older one is still there.
C23_Witness ==
    /\ dbLog.op = "delete"
    /\ entriesWith(dbLog.pre, dbLog.id) # {}
    /\ \E k \in DOMAIN disk.items : disk.items[k].id < dbLog.id

\* C24: once the page has opened the database, from no database or from
\* version 1 with or without 'saved-images', the database has the current
\* layout: version 2, 'saved-items' with key path id, auto-increment and
\* the createdAt index, and no other store.
C24_CurrentLayout ==
    dbPromise =>
        /\ disk.version = DB_VERSION
        /\ disk.stores = {savedItemsStore}
\* The database opened was of version 1 and had the legacy store.
C24_Witness ==
    /\ dbPromise
    /\ dbLog.pre.version = 1
    /\ savedImagesStore \in dbLog.pre.stores

\* C25: an edit, filter, adjustment, upscale or crop invoked with missing
\* input reports a message, makes no AI call and leaves the stack as it
\* is; an AI call is only made for a current image.
C25_MissingInput ==
    [][/\ txn'.op \in {"aiRejected", "cropRejected"} =>
            /\ Stack' = Stack
            /\ ~txn'.setsHistory
            /\ txn'.errors = 1
            /\ error' # NoError
            /\ pending' = pending
            /\ isLoading' = isLoading
       /\ txn'.op = "aiStart" => currentImage # NoFile]_vars
\* A handler turned its call down while the stack held an image.
C25_Witness ==
    /\ txn.op \in {"aiRejected", "cropRejected"}
    /\ history # <<>>
    /\ error # NoError

\* C27: while an AI edit, filter, adjustment or upscale is pending, every
\* control that would change the stack (undo, redo, reset, new upload and
\* the generate tab, crop apply, a second AI action) is disabled: none of
\* them changes the stack before the pending call is over.
C27_ControlsDisabled ==
    [][(/\ pending.kind # "none"
        /\ isLoading
        /\ error = NoError
        /\ txn'.op \in {"undo", "redo", "reset", "clear", "crop",
                        "aiStart"})
       => Stack' = Stack]_vars

\* C30: in every reachable state of the mounted view, currentImageUrl and
\* originalImageUrl are each absent or an object URL that is live (created
\* and not revoked), also between a change of the stack and the render
\* that follows it.
C30_NeverRevoked ==
    mounted =>
        /\ \/ currentImageUrl = NoFile
           \/ \E k \in DOMAIN liveUrls["current"] :
                 liveUrls["current"][k] = currentImageUrl
        /\ \/ originalImageUrl = NoFile
           \/ \E k \in DOMAIN liveUrls["original"] :
                 liveUrls["original"][k] = originalImageUrl

\* The continuation of handleGenerate after its auto-save: the one step
\* that may store an entry and replace the stack.
handingOver == gen.phase = "saving" /\ gen'.phase = "idle"

\* C26: the gallery and the stack are independent.  A gallery save, list
\* or delete changes neither the sequence, nor currentIndex, nor the
\* persisted history keys; append, undo, redo, reset, clear and replace do
\* not change the gallery, so an entry stays when its media leaves the
\* stack.
C26_Independent ==
    [][/\ (/\ \/ disk' # disk
              \/ galleryItems' # galleryItems
              \/ saving' # saving
           /\ ~handingOver)
          => /\ Stack' = Stack
             /\ ls' = ls
             /\ writes' = writes
       /\ (/\ txn' # txn
           /\ txn'.op \in {"upload", "galleryEdit", "undo", "redo", "reset",
                           "clear", "crop", "cropRejected"})
          => /\ disk' = disk
             /\ galleryItems' = galleryItems]_vars
\* The toolbar saved an image to the gallery and the stack was cleared or
\* replaced since: the entry is there, its File in no place of the stack.
C26_Witness ==
    /\ gen = NoGeneration
    /\ txn.op \in {"clear", "upload"}
    /\ disk.items # <<>>
    /\ \A k \in DOMAIN disk.items, m \in DOMAIN history :
          disk.items[k].file # history[m]

\* C28: a generation that succeeds hands its File to replaceAll exactly
\* once, whether the auto-save stored it or failed, and an auto-save
\* failure sets no error; a generation that fails stores no entry and
\* leaves the stack as it is.
C28_GenerationHandsOnce ==
    [][/\ handingOver
          => /\ history' = <<gen.file>>
             /\ historyIndex' = 0
             /\ gen'.handed = 1
             /\ txn'.errors = 0
             /\ error' = NoError
       /\ (gen.phase = "generating" /\ gen'.phase = "saving")
          => /\ Stack' = Stack
             /\ disk' = disk
       /\ (gen.phase = "generating" /\ gen'.phase = "idle")
          => /\ Stack' = Stack
             /\ disk' = disk
             /\ errorShown']_vars
\* The auto-save failed and the generated File is the stack.
C28_Witness ==
    /\ txn.op = "genHanded"
    /\ ~gen.saved
    /\ gen.handed = 1
    /\ history = <<gen.file>>
    /\ disk.items = <<>>

\* The panel on screen shows the video behind the URL.
heldByPanel(url) == video.mounted /\ video.generatedVideoUrl = url

\* C29: every object URL created for a generated video is eventually
\* revoked once the panel no longer shows it, after "start over" or after
\* the panel is unmounted.
C29_EventuallyRevoked ==
    \A url \in 1..(MaxVideos + 1) :
        (url <= videoUrls.created /\ ~heldByPanel(url))
            ~> (url \in videoUrls.revoked)

====
